---- MODULE Spec2Model ----
(***************************************************************************)
(* A model of the bounds-matching scaffold:                                *)
(*   - PDFBoundsExtractor (base/pdf_bounds_extractor_base.py),             *)
(*   - CombinedBoundsMatcher and main (combined_bounds_matcher.py),        *)
(*   - the value types of base/types.py.                                   *)
(* The PDF library is modelled by what the code asks of it: a document is  *)
(* a sequence of pages, a page has a size and a sequence of text spans,    *)
(* each with a rectangle in page units.  Texts are atoms: a literal search *)
(* hits the spans whose text is the needle.  Floats that the code obtains  *)
(* by a division are kept as fractions n/d.                                *)
(***************************************************************************)
EXTENDS Integers, Sequences, FiniteSets, TLC

\* ---------------------------------------------------------------- bounds
MaxPages == 2       \* pages of a document
MaxEntities == 2    \* entities of one batch
MaxCalls == 3       \* API calls made on one matcher instance

\* ------------------------------------------------------------- documents
\* Python's None, as a record so that it compares with the record values
None == [none |-> TRUE]
IsNone(v) == "none" \in DOMAIN v

Rect(x0, y0, x1, y1) == [x0 |-> x0, y0 |-> y0, x1 |-> x1, y1 |-> y1]

Span(text, bbox) == [text |-> text, bbox |-> bbox]

\* The span sequences a page may hold.  Every rectangle lies inside the
\* 4 x 2 page; one span is blank, two spans may carry the same text.
PageLayouts ==
    LET r1 == Rect(0, 0, 2, 1)
        r2 == Rect(2, 1, 4, 2)
        r3 == Rect(1, 0, 3, 1)
    IN  { <<>>,
          << Span("a", r1) >>,
          << Span("a", r1), Span("a", r2) >>,
          << Span("b", r2), Span("a", r3) >>,
          << Span(" ", r3), Span("a", r2) >> }

Pages == { [width |-> 4, height |-> 2, spans |-> s] : s \in PageLayouts }

Docs == UNION { [1..n -> Pages] : n \in 1..MaxPages }

\* The texts a caller searches for; "c" is on no page.
SearchTexts == {"a", "b", "c"}

\* len(self.pdf_doc)
PageCount(d) == Len(d)

\* self.pdf_doc[page_num] accepts page_num < page_count; a negative index
\* counts from the end (one wrap is modelled).
ValidIndex(d, page_num) == page_num < PageCount(d) /\ page_num >= -PageCount(d)

PageAt(d, page_num) ==
    IF page_num >= 0 THEN d[page_num + 1] ELSE d[PageCount(d) + page_num + 1]

\* The indices callers pass: every valid one, -1 (the last page) and one
\* past the end.
PageIndices == (-1)..MaxPages

\* page.search_for(search_text): the rectangles of the hits, in page order
RECURSIVE HitsFrom(_, _, _)
HitsFrom(spans, search_text, i) ==
    IF i > Len(spans) THEN <<>>
    ELSE (IF spans[i].text = search_text THEN << spans[i].bbox >> ELSE <<>>)
         \o HitsFrom(spans, search_text, i + 1)

search_for(page, search_text) == HitsFrom(page.spans, search_text, 1)

\* page.get_text(): the raw text of the page, one atom per span
get_text(page) == [i \in 1..Len(page.spans) |-> page.spans[i].text]

\* str.strip() on a span's text
strip(text) == IF text = " " THEN "" ELSE text

\* ---------------------------------------------------------------- types
Frac(n, d) == [n |-> n, d |-> d]

Bounds(page, x, y, width, height) ==
    [page |-> page, x |-> x, y |-> y, width |-> width, height |-> height]

\* ------------------------------------------------------------- variables
VARIABLES
    doc,            \* the PDF file the paths name
    open_handles,   \* the fitz documents opened and not yet closed
    _text_cache,    \* PDFBoundsExtractor._text_cache
    extractions,    \* page_num -> number of page.get_text() calls made for it
    served,         \* page_num -> the texts get_page_text returned for it
    call,           \* the last operation called, with its arguments
    ret,            \* what it returned or raised
    pc,             \* main's position, or "api" for a caller of the class
    entities,       \* main's local: data["entities"]
    built,          \* (name, type) -> MatchedEntity objects match_entity built
    output          \* what main wrote to matched_bounds.json

vars == << doc, open_handles, _text_cache, extractions, served, call, ret,
           pc, entities, built, output >>

extractorVars == << _text_cache, extractions, served >>
matcherVars == << pc, entities, built, output >>

Raise(exc, args) == [kind |-> "raise", exc |-> exc, args |-> args]
\* return of a record (None, a Bounds, a MatchedEntity, match_all's dict),
\* of a list of dicts, and of a str
Return(value) == [kind |-> "return", value |-> value]
ReturnList(items) == [kind |-> "return", items |-> items]
ReturnText(text) == [kind |-> "return", text |-> text]

BaseHandle == "base_extractor.pdf_doc"
OwnHandle == "matcher.pdf_doc"

\* ------------------------------------------------- PDFBoundsExtractor
_normalize_bounds(rect, page, page_num) ==
    Bounds(page_num,
           Frac(rect.x0, page.width),
           Frac(rect.y0, page.height),
           Frac(rect.x1 - rect.x0, page.width),
           Frac(rect.y1 - rect.y0, page.height))

\* The loop of find_exact_bounds taking the last rectangle of a page's hits
\* and letting a later page's hit replace an earlier one
RECURSIVE FindExactLastFrom(_, _, _)
FindExactLastFrom(d, search_text, page_num) ==
    IF page_num >= PageCount(d) THEN None
    ELSE LET page == PageAt(d, page_num)
             instances == search_for(page, search_text)
             later == FindExactLastFrom(d, search_text, page_num + 1)
         IN  IF ~IsNone(later) THEN later
             ELSE IF Len(instances) > 0
             THEN _normalize_bounds(instances[Len(instances)], page, page_num)
             ELSE None

\* The loop of find_exact_bounds from page_num on
RECURSIVE FindExactFrom(_, _, _)
FindExactFrom(d, search_text, page_num) ==
    IF page_num >= PageCount(d) THEN None
    ELSE LET page == PageAt(d, page_num)
             instances == search_for(page, search_text)
         IN  IF Len(instances) > 0
             THEN _normalize_bounds(instances[1], page, page_num)
             ELSE FindExactFrom(d, search_text, page_num + 1)

find_exact_bounds(d, search_text) == FindExactFrom(d, search_text, 0)

\* get_page_text without the membership test of line 96: every call extracts
get_page_text_uncached(cache, is_open, d, page_num) ==
    IF ~is_open
    THEN [ret |-> Raise("ValueError", [msg |-> "document closed"]),
          cache |-> cache, extracted |-> <<>>]
    ELSE IF ~ValidIndex(d, page_num)
    THEN [ret |-> Raise("IndexError", [page_num |-> page_num]),
          cache |-> cache, extracted |-> <<>>]
    ELSE LET text == get_text(PageAt(d, page_num))
         IN  [ret |-> ReturnText(text),
              cache |-> (page_num :> text) @@ cache,
              extracted |-> << page_num >>]

\* get_page_text as a function of the cache: what it returns or raises, the
\* cache it leaves, and the page numbers it called page.get_text() for.
get_page_text(cache, is_open, d, page_num) ==
    IF page_num \in DOMAIN cache
    THEN [ret |-> ReturnText(cache[page_num]), cache |-> cache, extracted |-> <<>>]
    ELSE IF ~is_open
    THEN [ret |-> Raise("ValueError", [msg |-> "document closed"]),
          cache |-> cache, extracted |-> <<>>]
    ELSE IF ~ValidIndex(d, page_num)
    THEN [ret |-> Raise("IndexError", [page_num |-> page_num]),
          cache |-> cache, extracted |-> <<>>]
    ELSE LET text == get_text(PageAt(d, page_num))
         IN  [ret |-> ReturnText(text),
              cache |-> (page_num :> text) @@ cache,
              extracted |-> << page_num >>]

\* page_text.find(search_text, start): 0-based position, -1 when absent
RECURSIVE find(_, _, _)
find(page_text, search_text, start) ==
    IF start >= Len(page_text) THEN -1
    ELSE IF page_text[start + 1] = search_text THEN start
    ELSE find(page_text, search_text, start + 1)

Max(a, b) == IF a >= b THEN a ELSE b
Min(a, b) == IF a <= b THEN a ELSE b

\* The while loop of search_with_context on one page, from start on
RECURSIVE PageMatches(_, _, _, _, _, _)
PageMatches(d, page_text, page_num, search_text, context_chars, start) ==
    LET idx == find(page_text, search_text, start)
    IN  IF idx = -1 THEN <<>>
        ELSE LET context_start == Max(0, idx - context_chars)
                 context_end == Min(Len(page_text), idx + 1 + context_chars)
             IN  << [page |-> page_num,
                     position |-> idx,
                     context |-> SubSeq(page_text, context_start + 1, context_end),
                     bounds |-> find_exact_bounds(d, search_text)] >>
                 \o PageMatches(d, page_text, page_num, search_text,
                                context_chars, idx + 1)

\* The page loop of search_with_context from page_num on
RECURSIVE SearchFrom(_, _, _, _, _)
SearchFrom(cache, d, search_text, context_chars, page_num) ==
    IF page_num >= PageCount(d)
    THEN [matches |-> <<>>, cache |-> cache, extracted |-> <<>>]
    ELSE LET got == get_page_text(cache, TRUE, d, page_num)
             here == PageMatches(d, got.ret.text, page_num, search_text,
                                 context_chars, 0)
             rest == SearchFrom(got.cache, d, search_text, context_chars,
                                page_num + 1)
         IN  [matches |-> here \o rest.matches,
              cache |-> rest.cache,
              extracted |-> got.extracted \o rest.extracted]

search_with_context(cache, is_open, d, search_text, context_chars) ==
    IF ~is_open
    THEN [ret |-> Raise("ValueError", [msg |-> "document closed"]),
          cache |-> cache, extracted |-> <<>>]
    ELSE LET r == SearchFrom(cache, d, search_text, context_chars, 0)
         IN  [ret |-> ReturnList(r.matches), cache |-> r.cache,
              extracted |-> r.extracted]

\* The Bounds extract_all_text_blocks builds for one span
BlockBounds(bbox, page, page_num) ==
    Bounds(page_num,
           Frac(bbox.x0, 1),
           Frac(bbox.y0, 1),
           Frac(bbox.x1 - bbox.x0, 1),
           Frac(bbox.y1 - bbox.y0, 1))

\* The span loop of extract_all_text_blocks from the i-th span (1-based) on
RECURSIVE BlocksFrom(_, _, _)
BlocksFrom(page, page_num, i) ==
    IF i > Len(page.spans) THEN <<>>
    ELSE LET span == page.spans[i]
             text == strip(span.text)
         IN  (IF text # ""
              THEN << [text |-> text,
                       bounds |-> BlockBounds(span.bbox, page, page_num)] >>
              ELSE <<>>)
             \o BlocksFrom(page, page_num, i + 1)

extract_all_text_blocks(d, page_num) ==
    BlocksFrom(PageAt(d, page_num), page_num, 1)

\* How often each page number occurs in a sequence of page numbers
Occurrences(seq, page_num) ==
    Cardinality({i \in 1..Len(seq) : seq[i] = page_num})

ExtractorOpen == BaseHandle \in open_handles

\* ---- the extractor's operations
GetPageText ==
    \E page_num \in PageIndices :
        /\ extractions[page_num] < MaxCalls
        /\ LET r == get_page_text(_text_cache, ExtractorOpen, doc, page_num)
           IN  /\ _text_cache' = r.cache
               /\ extractions' =
                    [i \in PageIndices |->
                        extractions[i] + Occurrences(r.extracted, i)]
               /\ served' =
                    IF r.ret.kind = "return"
                    THEN [served EXCEPT ![page_num] = @ \cup {r.ret.text}]
                    ELSE served
               /\ call' = [op |-> "get_page_text", page_num |-> page_num,
                           cached |-> page_num \in DOMAIN _text_cache]
               /\ ret' = r.ret
        /\ UNCHANGED << doc, open_handles, matcherVars >>

SearchWithContext ==
    \E search_text \in SearchTexts, context_chars \in {0, 1} :
        /\ \A i \in PageIndices : extractions[i] < MaxCalls
        /\ LET r == search_with_context(_text_cache, ExtractorOpen, doc,
                                        search_text, context_chars)
           IN  /\ _text_cache' = r.cache
               /\ extractions' =
                    [i \in PageIndices |->
                        extractions[i] + Occurrences(r.extracted, i)]
               /\ served' =
                    IF r.ret.kind = "return"
                    THEN [i \in PageIndices |->
                            IF i \in 0..(PageCount(doc) - 1)
                            THEN served[i] \cup {r.cache[i]}
                            ELSE served[i]]
                    ELSE served
               /\ call' = [op |-> "search_with_context",
                           search_text |-> search_text,
                           context_chars |-> context_chars]
               /\ ret' = r.ret
        /\ UNCHANGED << doc, open_handles, matcherVars >>

FindExactBounds ==
    \E search_text \in SearchTexts :
        /\ call' = [op |-> "find_exact_bounds", search_text |-> search_text]
        /\ ret' = IF ExtractorOpen
                  THEN Return(find_exact_bounds(doc, search_text))
                  ELSE Raise("ValueError", [msg |-> "document closed"])
        /\ UNCHANGED << doc, open_handles, extractorVars, matcherVars >>

ExtractAllTextBlocks ==
    \E page_num \in PageIndices :
        /\ call' = [op |-> "extract_all_text_blocks", page_num |-> page_num]
        /\ ret' = IF ~ExtractorOpen
                  THEN Raise("ValueError", [msg |-> "document closed"])
                  ELSE IF ~ValidIndex(doc, page_num)
                  THEN Raise("IndexError", [page_num |-> page_num])
                  ELSE ReturnList(extract_all_text_blocks(doc, page_num))
        /\ UNCHANGED << doc, open_handles, extractorVars, matcherVars >>

\* PDFBoundsExtractor.close
ExtractorClose ==
    /\ open_handles' = open_handles \ {BaseHandle}
    /\ call' = [op |-> "close"]
    /\ ret' = Return(None)
    /\ UNCHANGED << doc, extractorVars, matcherVars >>

\* PDFBoundsExtractor.__init__ on an existing file
InitExtractor ==
    /\ doc \in Docs
    /\ open_handles = {BaseHandle}
    /\ _text_cache = <<>>
    /\ extractions = [i \in PageIndices |-> 0]
    /\ served = [i \in PageIndices |-> {}]
    /\ call = [op |-> "__init__"]
    /\ ret = Return(None)
    /\ pc = "api"
    /\ entities = <<>>
    /\ built = [k \in {} |-> 0]
    /\ output = None

NextExtractor ==
    \/ GetPageText
    \/ SearchWithContext
    \/ FindExactBounds
    \/ ExtractAllTextBlocks
    \/ ExtractorClose

SpecExtractor == InitExtractor /\ [][NextExtractor]_vars

\* ------------------------------------------------------ base/types.py
BoundsToDict(b) ==
    [page |-> b.page, x |-> b.x, y |-> b.y, width |-> b.width,
     height |-> b.height]

ComponentMatchToDict(c) ==
    [text |-> c.text,
     bounds |-> IF IsNone(c.bounds) THEN None ELSE BoundsToDict(c.bounds)]

MatchedEntity(entity_name, entity_type, match_strategy, confidence, bounds, component_matches) ==
    [entity_name |-> entity_name, entity_type |-> entity_type,
     match_strategy |-> match_strategy, confidence |-> confidence,
     bounds |-> bounds, component_matches |-> component_matches]

MatchedEntityToDict(e) ==
    [entity_name |-> e.entity_name,
     entity_type |-> e.entity_type,
     match_strategy |-> e.match_strategy,
     confidence |-> e.confidence,
     bounds |-> IF IsNone(e.bounds) THEN None ELSE BoundsToDict(e.bounds),
     component_matches |->
        [i \in 1..Len(e.component_matches) |->
            ComponentMatchToDict(e.component_matches[i])]]

\* ------------------------------------------------ CombinedBoundsMatcher
EntityNames == {"a", "c"}
EntityTypes == {"KPI", "DATE"}
Keys == EntityNames \X EntityTypes

\* The dicts of an input list: well formed, or lacking "name" or "type"
EntityDicts ==
    [name : EntityNames, type : EntityTypes]
        \cup {[type |-> "KPI"], [name |-> "a"]}

EntityLists == UNION { [1..n -> EntityDicts] : n \in 0..MaxEntities }

\* Comparison of fractions with positive denominators
FracLess(a, b) == a.n * b.d < b.n * a.d
FracEq(a, b) == a.n * b.d = b.n * a.d

\* match_entity with -1 as the confidence of "not found"
match_entity_sentinel(entity_name, entity_type) ==
    MatchedEntity(entity_name, entity_type, "none", Frac(-1, 1), None, <<>>)

match_entity(entity_name, entity_type) ==
    MatchedEntity(entity_name, entity_type, "none", Frac(0, 1), None, <<>>)

\* The three confidence buckets of match_all
IsMatched(confidence) == FracLess(Frac(1, 2), confidence)

\* The partial bucket with its lower bound included
IsPartialFromZero(confidence) ==
    ~FracLess(confidence, Frac(0, 1)) /\ ~FracLess(Frac(1, 2), confidence)

IsPartial(confidence) ==
    FracLess(Frac(0, 1), confidence) /\ ~FracLess(Frac(1, 2), confidence)

IsUnmatched(confidence) == FracEq(confidence, Frac(0, 1))

\* sum(1 for e in matched_entities if ...), on the sequence of the tests'
\* outcomes
Count(tests) == Cardinality({i \in 1..Len(tests) : tests[i]})

\* strategies_used[strategy] = strategies_used.get(strategy, 0) + 1
Bump(strategies_used, strategy) ==
    IF strategy \in DOMAIN strategies_used
    THEN [strategies_used EXCEPT ![strategy] = @ + 1]
    ELSE (strategy :> 1) @@ strategies_used

\* The loop of match_all from the i-th entity (1-based) on.  keys are the
\* (name, type) pairs match_entity was called with.
RECURSIVE MatchAllFrom(_, _, _, _, _)
MatchAllFrom(es, i, matched_entities, strategies_used, keys) ==
    IF i > Len(es)
    THEN LET n == Len(matched_entities)
             matched == Count([j \in 1..n |->
                            IsMatched(matched_entities[j].confidence)])
             partial == Count([j \in 1..n |->
                            IsPartial(matched_entities[j].confidence)])
             unmatched == Count([j \in 1..n |->
                            IsUnmatched(matched_entities[j].confidence)])
         IN  [ret |-> Return(
                [matched_entities |-> matched_entities,
                 statistics |->
                    [total_entities |-> Len(es),
                     matched |-> matched,
                     partial_matched |-> partial,
                     unmatched |-> unmatched,
                     strategies_used |-> strategies_used]]),
              keys |-> keys]
    ELSE IF "name" \notin DOMAIN es[i]
    THEN [ret |-> Raise("KeyError", [key |-> "name"]), keys |-> keys]
    ELSE IF "type" \notin DOMAIN es[i]
    THEN [ret |-> Raise("KeyError", [key |-> "type"]), keys |-> keys]
    ELSE LET result == match_entity(es[i].name, es[i].type)
         IN  MatchAllFrom(es, i + 1,
                          Append(matched_entities, MatchedEntityToDict(result)),
                          Bump(strategies_used, result.match_strategy),
                          Append(keys, << es[i].name, es[i].type >>))

match_all(es) == MatchAllFrom(es, 1, <<>>, <<>>, <<>>)

\* built after match_entity ran for each of keys
Built(keys) ==
    [k \in Keys |->
        built[k] + Cardinality({i \in 1..Len(keys) : keys[i] = k})]

RECURSIVE SumOver(_, _)
SumOver(f, S) ==
    IF S = {} THEN 0
    ELSE LET x == CHOOSE x \in S : TRUE IN f[x] + SumOver(f, S \ {x})

TotalBuilt == SumOver(built, Keys)

\* ---- a caller of the class, on a constructed matcher
MatchEntity ==
    /\ pc = "api"
    /\ TotalBuilt < MaxCalls
    /\ \E entity_name \in EntityNames, entity_type \in EntityTypes :
        /\ call' = [op |-> "match_entity", entity_name |-> entity_name,
                    entity_type |-> entity_type]
        /\ ret' = Return(match_entity(entity_name, entity_type))
        /\ built' = Built(<< << entity_name, entity_type >> >>)
    /\ UNCHANGED << doc, open_handles, extractorVars, pc, entities, output >>

MatchAll ==
    /\ pc = "api"
    /\ \E es \in EntityLists :
        /\ TotalBuilt + Len(es) <= MaxCalls
        /\ LET r == match_all(es)
           IN  /\ call' = [op |-> "match_all", entities |-> es]
               /\ ret' = r.ret
               /\ built' = Built(r.keys)
    /\ UNCHANGED << doc, open_handles, extractorVars, pc, entities, output >>

\* CombinedBoundsMatcher.close
Close ==
    /\ pc = "api"
    /\ open_handles' = open_handles \ {OwnHandle}
    /\ call' = [op |-> "close"]
    /\ ret' = Return(None)
    /\ UNCHANGED << doc, extractorVars, pc, entities, built, output >>

\* ---- main, statement by statement
\* lines 143-148: the input file is read; it may be missing
MainLoad ==
    /\ pc = "start"
    /\ \/ /\ pc' = "failed"
          /\ ret' = Raise("FileNotFoundError", [path |-> "entities_to_match.json"])
          /\ UNCHANGED entities
       \/ \E es \in EntityLists :
            /\ entities' = es
            /\ pc' = "loaded"
            /\ UNCHANGED ret
    /\ call' = [op |-> "main.load"]
    /\ UNCHANGED << doc, open_handles, extractorVars, built, output >>

\* line 151, CombinedBoundsMatcher.__init__: fitz.open at line 48 raises on a
\* missing or unreadable file, before any handle exists; on a file it
\* opened, PDFBoundsExtractor.__init__ at line 49 finds the file and opens
\* it a second time.
MainConstruct ==
    /\ pc = "loaded"
    /\ \/ /\ open_handles' = open_handles
          /\ pc' = "failed"
          /\ ret' = Raise("FileNotFoundError", [path |-> "pdf_file"])
       \/ /\ open_handles' = open_handles \cup {OwnHandle, BaseHandle}
          /\ pc' = "constructed"
          /\ UNCHANGED ret
    /\ call' = [op |-> "__init__"]
    /\ UNCHANGED << doc, extractorVars, entities, built, output >>

\* line 152
MainMatchAll ==
    /\ pc = "constructed"
    /\ LET r == match_all(entities)
       IN  /\ call' = [op |-> "match_all", entities |-> entities]
           /\ ret' = r.ret
           /\ built' = Built(r.keys)
           /\ pc' = IF r.ret.kind = "return" THEN "matched" ELSE "failed"
    /\ UNCHANGED << doc, open_handles, extractorVars, entities, output >>

\* line 153
MainClose ==
    /\ pc = "matched"
    /\ open_handles' = open_handles \ {OwnHandle}
    /\ pc' = "closed"
    /\ UNCHANGED << doc, extractorVars, call, ret, entities, built, output >>

\* lines 156-162
MainSave ==
    /\ pc = "closed"
    /\ output' = ret.value
    /\ pc' = "done"
    /\ UNCHANGED << doc, open_handles, extractorVars, call, ret, entities,
                    built >>

\* A matcher constructed by a caller, or main about to run
Init ==
    /\ doc \in {d \in Docs : PageCount(d) = 1}
    /\ _text_cache = <<>>
    /\ extractions = [i \in PageIndices |-> 0]
    /\ served = [i \in PageIndices |-> {}]
    /\ entities = <<>>
    /\ built = [k \in Keys |-> 0]
    /\ output = None
    /\ \/ /\ pc = "api"
          /\ open_handles = {OwnHandle, BaseHandle}
          /\ call = [op |-> "__init__"]
          /\ ret = Return(None)
       \/ /\ pc = "start"
          /\ open_handles = {}
          /\ call = [op |-> "main"]
          /\ ret = Return(None)

Next ==
    \/ MatchEntity
    \/ MatchAll
    \/ Close
    \/ MainLoad
    \/ MainConstruct
    \/ MainMatchAll
    \/ MainClose
    \/ MainSave

Spec == Init /\ [][Next]_vars

\* ------------------------------------------- claims on the extractor

\* The 1-based number of the page that page_num names
PageNumber(d, page_num) ==
    IF page_num >= 0 THEN page_num + 1 ELSE PageCount(d) + page_num + 1

\* The 1-based number of the first page with a literal hit
FirstHitPage(d, search_text) ==
    CHOOSE i \in 1..PageCount(d) :
        /\ Len(search_for(d[i], search_text)) > 0
        /\ \A j \in 1..(i - 1) : Len(search_for(d[j], search_text)) = 0

\* The Bounds values the last call returned
ReturnedBounds ==
    IF ret.kind # "return" THEN {}
    ELSE IF call.op = "find_exact_bounds"
    THEN IF IsNone(ret.value) THEN {} ELSE {ret.value}
    ELSE IF call.op = "extract_all_text_blocks"
    THEN {ret.items[i].bounds : i \in 1..Len(ret.items)}
    ELSE IF call.op = "search_with_context"
    THEN {ret.items[i].bounds :
            i \in {j \in 1..Len(ret.items) : ~IsNone(ret.items[j].bounds)}}
    ELSE {}

\* C2: every Bounds produced for located text carries the 1-indexed number
\* of the page the text was found on: page >= 1 and a hit on the i-th page
\* is labeled page = i.
C2_PagesOneIndexed ==
    \A b \in ReturnedBounds :
        /\ b.page >= 1
        /\ b.page = IF call.op = "extract_all_text_blocks"
                    THEN PageNumber(doc, call.page_num)
                    ELSE FirstHitPage(doc, call.search_text)

InUnit(f) == f.d > 0 /\ 0 <= f.n /\ f.n <= f.d

\* C3: every Bounds produced for located text has x, y, width and height
\* divided by the page's width and height, hence in [0,1] (all rectangles
\* of the documents lie inside their pages).
C3_BoundsNormalized ==
    \A b \in ReturnedBounds :
        InUnit(b.x) /\ InUnit(b.y) /\ InUnit(b.width) /\ InUnit(b.height)

\* C8: page.get_text() is called at most once per page index, every
\* retrieval of an index returns the same text, and the cache holds exactly
\* the indices extracted so far (none at construction).
C8_PageTextExtractedOnce ==
    \A i \in PageIndices :
        /\ extractions[i] <= 1
        /\ Cardinality(served[i]) <= 1
        /\ (i \in DOMAIN _text_cache) <=> (extractions[i] = 1)
        /\ i \in DOMAIN _text_cache => served[i] = {_text_cache[i]}

\* A second retrieval of a page index, answered from the cache
C8_Witness ==
    /\ call.op = "get_page_text"
    /\ call.cached
    /\ ret.kind = "return"
    /\ ret.text # <<>>
    /\ extractions[call.page_num] = 1

\* --------------------------------------------- claims on the matcher

\* The MatchedEntity values the last call returned
ReturnedEntities ==
    IF ret.kind # "return" THEN {}
    ELSE IF call.op = "match_entity" THEN {ret.value}
    ELSE IF call.op = "match_all"
    THEN {ret.value.matched_entities[i] :
            i \in 1..Len(ret.value.matched_entities)}
    ELSE {}

\* C1: for a batch of N entities the statistics match_all returns have
\* total_entities = N, matched + partial_matched + unmatched = N, and the
\* counts of strategies_used add up to N.
C1_StatisticsAddUp ==
    (call.op = "match_all" /\ ret.kind = "return") =>
        LET st == ret.value.statistics
            N == Len(call.entities)
        IN  /\ st.total_entities = N
            /\ st.matched + st.partial_matched + st.unmatched = N
            /\ SumOver(st.strategies_used, DOMAIN st.strategies_used) = N
            /\ Len(ret.value.matched_entities) = N

\* match_all returned the statistics of a batch of two or more entities
C1_Witness ==
    /\ call.op = "match_all"
    /\ ret.kind = "return"
    /\ Len(call.entities) >= 2
    /\ ret.value.statistics.unmatched >= 2

\* The entity text is on some page, literally
OccursVerbatim(d, text) ==
    \E i \in 1..PageCount(d) : Len(search_for(d[i], text)) > 0

\* C4: an entity whose text occurs verbatim on some page is returned with
\* match_strategy "exact" and confidence 1.0.
C4_VerbatimIsExact ==
    \A e \in ReturnedEntities :
        OccursVerbatim(doc, e.entity_name) =>
            /\ e.match_strategy = "exact"
            /\ FracEq(e.confidence, Frac(1, 1))

\* C5: every returned MatchedEntity has 0 <= confidence <= 1.
C5_ConfidenceInUnit ==
    \A e \in ReturnedEntities : InUnit(e.confidence)

\* match_entity returned a result for an entity
C5_Witness ==
    /\ call.op = "match_entity"
    /\ ret.kind = "return"
    /\ ret.value.entity_name = call.entity_name
    /\ InUnit(ret.value.confidence)

\* C6: of the calls of match_entity with one (entity_name, entity_type), only
\* the first builds a result; the later ones are answered from the cache.
C6_SecondCallIsCacheHit ==
    \A k \in Keys : built[k] <= 1

\* C7: a returned entity with confidence above 0 names its strategy.  No
\* reachable state holds an entity with a confidence above 0.
C7_StrategyRecorded ==
    \A e \in ReturnedEntities :
        FracLess(Frac(0, 1), e.confidence) => e.match_strategy # "none"

\* C9: when main has finished, normally or by an exception, no document
\* handle is open.
C9_HandlesReleased ==
    pc \in {"done", "failed"} => open_handles = {}

\* The 0-based position of the first entity lacking "name" or "type"
Malformed(es) ==
    {i \in 1..Len(es) : ~({"name", "type"} \subseteq DOMAIN es[i])}

FirstMalformed(es) ==
    (CHOOSE i \in Malformed(es) : \A j \in Malformed(es) : i <= j) - 1

\* C10: match_all on a list with an entity lacking a required field raises,
\* returns no result set, and the error names the entity's position.
C10_MalformedReportsPosition ==
    (call.op = "match_all" /\ Malformed(call.entities) # {}) =>
        /\ ret.kind = "raise"
        /\ "position" \in DOMAIN ret.args
        /\ ret.args.position = FirstMalformed(call.entities)

\* C11: find_exact_bounds returns None exactly when no page holds the text;
\* otherwise it returns the first rectangle of the lowest-indexed page that
\* holds the text, divided by that page's size and labeled with that page's
\* index, never a rectangle of a later page.
C11_FirstHitOfFirstPage ==
    (call.op = "find_exact_bounds" /\ ret.kind = "return") =>
        /\ IsNone(ret.value) <=> ~OccursVerbatim(doc, call.search_text)
        /\ ~IsNone(ret.value) =>
            LET p == FirstHitPage(doc, call.search_text)
                page == doc[p]
                rect == search_for(page, call.search_text)[1]
            IN  /\ ret.value.page = p - 1
                /\ ret.value.x = Frac(rect.x0, page.width)
                /\ ret.value.y = Frac(rect.y0, page.height)
                /\ ret.value.width = Frac(rect.x1 - rect.x0, page.width)
                /\ ret.value.height = Frac(rect.y1 - rect.y0, page.height)

\* A hit returned from a first page with two hits, a later page holding the
\* text at another place
C11_Witness ==
    /\ call.op = "find_exact_bounds"
    /\ ret.kind = "return"
    /\ ~IsNone(ret.value)
    /\ PageCount(doc) >= 2
    /\ Len(search_for(doc[1], call.search_text)) >= 2
    /\ Len(search_for(doc[2], call.search_text)) >= 1
    /\ search_for(doc[2], call.search_text)[1] # search_for(doc[1], call.search_text)[1]

====
